---- MODULE Spec2Model ----
(***************************************************************************)
(* Model of the orbital viewer controller (OrbitViewer.tsx), of the phase  *)
(* helpers it uses (orbitSprite.ts) and of the frame stabilizer            *)
(* (normalize.ts), of the job server (server.ts) and of the in-memory      *)
(* cache (MemoryCache).  Spec is the controller with its gestures and      *)
(* transitions; EmitSpec, ZoomSpec, HelperSpec, StabilizerSpec, RenderSpec,*)
(* InterpSpec, JobSpec and CacheSpec each exercise one part on its own     *)
(* state.                                                                  *)
(*                                                                         *)
(* Angles are JavaScript numbers in the source.  Here an angle is an       *)
(* integer count of 1/Scale degrees; Scale is a power of two large enough  *)
(* that every value the bounded inputs can produce is represented exactly  *)
(* (each transition halves a distance at most once, see DurSet; the       *)
(* longer transitions of InterpSpec round down to 1/Scale degree).         *)
(* Time is counted in units of 1/60 s; a render tick receives the time dt  *)
(* elapsed since the previous tick (1 = 60 Hz display, 2 = 30 Hz display). *)
(***************************************************************************)
EXTENDS Integers, Sequences, FiniteSets, TLC

VARIABLES
    yaw,          \* stateRef.current.yaw          (1/Scale degrees)
    pitch,        \* stateRef.current.pitch        (1/Scale degrees)
    frameIndex,   \* stateRef.current.frameIndex
    isDragging,   \* stateRef.current.isDragging
    isPlaying,    \* stateRef.current.isPlaying
    animState,    \* animStateRef.current (NoAnim = null)
    drag,         \* dragRef.current (NoDrag = null)
    handles,      \* the promises returned by playTo, in call order
    texturesLen,  \* texturesRef.current.length (one texture per frame once ready)
    last,         \* the step taken last and what it did (observation only)
    zoom,         \* stateRef.current.zoom        (1/ZoomUnit)
    parallax,     \* stateRef.current.parallax    (1/ParallaxUnit)
    props,        \* the props enableZoom, enableParallax and manifest.zoom.max
    listeners,    \* listenersRef.current: event kind -> callbacks in insertion order
    call,         \* the arguments of the helper function under study
    ret,          \* what the call returned
    jobs,         \* server.ts jobs: job_id -> Job, ids in order of creation
    idempotencyKeys, \* server.ts idempotencyKeys: key -> job_id (0 = no entry)
    jobQueue,     \* server.ts jobQueue: job ids in queue order
    isProcessing, \* server.ts isProcessing
    worker,       \* where the processQueue / processJob call in flight stands
    requests,     \* the createJob calls so far: awaiting the body, or answered
    cache,        \* MemoryCache.cache: entries in insertion order
    now           \* Date.now() as seen by the cache

\* the state of the orbit controller and its gestures
viewer == <<yaw, pitch, frameIndex, isDragging, isPlaying, animState, drag,
            handles, texturesLen>>
\* the state that the orbit, drag and transition operations never touch
aux == <<zoom, parallax, props, listeners, call, ret>>
\* the job server and the cache: state of their own, untouched by the viewer
\* and the helpers
server == <<jobs, idempotencyKeys, jobQueue, isProcessing, worker, requests>>
services == <<server, cache, now>>

vars == <<yaw, pitch, frameIndex, isDragging, isPlaying, animState, drag,
          handles, texturesLen, last, zoom, parallax, props, listeners, call, ret,
          jobs, idempotencyKeys, jobQueue, isProcessing, worker, requests, cache, now>>

(* ------------------------------ bounds --------------------------------- *)

\* number of playTo calls in a run
MaxPlayTo == 2

(* ------------------------- program constants --------------------------- *)

\* frames.length: one ring of 12 frames (MODE_CONFIGS.fast)
FrameCount == 12
\* the `/ 60` of the auto-rotation step: ticks per second the code assumes
AssumedFps == 60
\* prop autoPlaySpeed in degrees per second (default 30); 5400 makes one
\* auto-rotation step 90 degrees so that the orbit wraps within a few ticks
AutoPlaySpeed == 5400
\* prop width (viewport width in px)
Width == 584
\* FULL_SPHERE_RINGS: ring pitches in degrees
RingPhis == {0 - 15, 0, 15}

(* ----------------------------- inputs ---------------------------------- *)

Scale == 2 ^ MaxPlayTo
Deg(d) == d * Scale
FullTurn == Deg(360)

\* angles handed to setYaw (degrees)
YawInputs == {0 - 90, 400}
\* angles handed to setPitch (degrees)
PitchInputs == {10, 40}
\* <<yaw, pitch>> targets handed to playTo (degrees)
PlayTargets == {<<0 - 90, 10>>, <<400, 40>>}
\* playTo durations secs, in units of 1/60 s
DurSet == {0, 2}
\* time between two render ticks, in units of 1/60 s
DtSet == {1, 2}
\* pointer-down position and pointer-move positions (px): a move to x = 20
\* drags 180 px (less than Width / 3), a move to x = 560 drags 360 px (more)
DownXs == {200}
DownYs == {100}
MoveXs == {20, 560}
MoveYs == {140}

(* ----------------------------- helpers --------------------------------- *)

Abs(x) == IF x < 0 THEN 0 - x ELSE x
Min2(a, b) == IF a < b THEN a ELSE b
Max2(a, b) == IF a > b THEN a ELSE b
SetMin(S) == CHOOSE x \in S : \A y \in S : x <= y
SetMax(S) == CHOOSE x \in S : \A y \in S : x >= y

\* JavaScript's a % m: the result takes the sign of the dividend
JsRem(a, m) == IF a >= 0 THEN a % m ELSE 0 - ((0 - a) % m)

\* a normalisation that takes the remainder once
NormalizeOnce(a) == JsRem(a, FullTurn)

\* ((thetaDeg % 360) + 360) % 360
Normalize(a) == JsRem(JsRem(a, FullTurn) + FullTurn, FullTurn)

\* phaseParams(thetaDeg, frames).i : floor(normalized / step) % frames
PhaseI(a, n) == ((Normalize(a) * n) \div FullTurn) % n

\* (360 / total) * i
angleForIndex(i, n) == (FullTurn \div n) * i

\* easeInOutCubic(n/d) as the fraction <<numerator, denominator>>
easeInOutCubic(n, d) ==
    IF 2 * n < d THEN <<4 * n * n * n, d * d * d>>
                 ELSE <<d * d * d - 4 * (d - n) * (d - n) * (d - n), d * d * d>>

\* Math.min(elapsed / duration, 1) as a fraction; elapsed > 0 in every tick,
\* so a zero duration gives +Infinity and the minimum is 1
Progress(elapsed, duration) ==
    IF elapsed >= duration THEN <<1, 1>> ELSE <<elapsed, duration>>

\* from + (to - from) * eased
Interpolate(from, to, e) == from + ((to - from) * e[1]) \div e[2]

\* animStateRef.current; id names the promise whose resolve it holds, and
\* elapsed is the time since startTime
NoAnim == [id |-> 0, targetYaw |-> 0, targetPitch |-> 0, duration |-> 0, elapsed |-> 0]
\* dragRef.current; its velocity field is written by handlePointerMove and
\* read only by an empty branch of handlePointerUp, and is left out
NoDrag == [active |-> FALSE, startX |-> 0, startY |-> 0, startYaw |-> 0,
           startPitch |-> 0, lastX |-> 0, lastY |-> 0]
\* angle is the payload <<yaw, pitch>> of the last 'angle' event the step
\* emitted (<<>> if none), frame the payload of its last 'frame' event (-1 if none)
NoLast == [op |-> "call", dt |-> 0, done |-> 0, auto |-> FALSE, base |-> 0,
           startYaw |-> 0, totalDx |-> 0, angle |-> <<>>, frame |-> 0 - 1]
\* what `last` records of a step that is neither a tick nor a pointer-up
Called == NoLast
\* ... and of such a step when it emitted 'angle' and rendered
Emitted(y, p, fe) == [NoLast EXCEPT !.angle = <<y, p>>, !.frame = fe]

\* render(): resolves the frame index unless no texture is loaded
Render(y, fi) == IF texturesLen = 0 THEN fi ELSE PhaseI(y, FrameCount)

\* render() without its `if (!texA || !texB) return`
RenderEmitsUnchecked(y) ==
    IF texturesLen = 0 THEN 0 - 1 ELSE PhaseI(y, FrameCount)

\* render(): the payload of the 'frame' event it emits, -1 if it returns
\* before the emit (no texture loaded, or no texture for frame i or j)
RenderEmits(y) ==
    LET i == PhaseI(y, FrameCount)
        j == (i + 1) % FrameCount
    IN IF texturesLen = 0 \/ i >= texturesLen \/ j >= texturesLen THEN 0 - 1 ELSE i

(* ------------------------------- Init ---------------------------------- *)

\* zoom and parallax in fixed point
ZoomUnit == 10
ParallaxUnit == 1000
\* DEFAULT_ZOOM_MAX = 1.2 and DEFAULT_PARALLAX_MAX = 0.02 in these units
DEFAULT_ZOOM_MAX == 12
DEFAULT_PARALLAX_MAX == 20

EventKinds == {"angle", "frame", "ready", "drag"}
NoCall == [fn |-> "none"]

\* enableZoom, enableParallax default to true; zoomMax and parallaxMax stand
\* for manifest?.zoom?.max and manifest?.parallax_max, 0 when absent
DefaultProps == [enableZoom |-> TRUE, enableParallax |-> TRUE, zoomMax |-> 0,
                 parallaxMax |-> 0]

\* initialZoom = 1, parallax 0, default props, no listener
AuxInit ==
    /\ zoom = ZoomUnit
    /\ parallax = 0
    /\ props = DefaultProps
    /\ listeners = [k \in EventKinds |-> <<>>]
    /\ call = NoCall
    /\ ret = NoCall

ViewerInit ==
    /\ yaw = 0
    /\ pitch = 0
    /\ frameIndex = 0
    /\ isDragging = FALSE
    /\ isPlaying \in BOOLEAN
    /\ animState = NoAnim
    /\ drag = NoDrag
    /\ handles = <<>>
    /\ texturesLen = FrameCount
    /\ last = NoLast

\* module state of server.ts and a fresh MemoryCache
NoWorker == [pc |-> "idle", job |-> 0]
ServicesInit ==
    /\ jobs = <<>>
    /\ idempotencyKeys = <<>>
    /\ jobQueue = <<>>
    /\ isProcessing = FALSE
    /\ worker = NoWorker
    /\ requests = <<>>
    /\ cache = <<>>
    /\ now = 0

Init == ViewerInit /\ AuxInit /\ ServicesInit

(* --------------------- controller: value operators --------------------- *)

\* setYaw with opts.snap, n = frames.length:
\* { i } = phaseParams(normalized, n); yaw = (360 / n) * i
SnapYaw(theta, n) == angleForIndex(PhaseI(Normalize(theta), n), n)

\* setYaw: the yaw stored for thetaDeg, with or without opts.snap
SetYawValue(theta, snap) ==
    IF snap THEN SnapYaw(theta, FrameCount) ELSE Normalize(theta)

MinPhi == SetMin({Deg(r) : r \in RingPhis})
MaxPhi == SetMax({Deg(r) : r \in RingPhis})

\* setPitch: Math.max(minPhi, Math.min(maxPhi, phiDeg))
SetPitchValue(phi) == Max2(MinPhi, Min2(MaxPhi, phi))

\* a playTo that leaves a pending transition in place (first writer wins)
PlayToAnimKeepsPending(cur, y, p, d, id) ==
    IF cur.id # 0 THEN cur
    ELSE [id |-> id, targetYaw |-> y, targetPitch |-> p, duration |-> d, elapsed |-> 0]

\* playTo: the transition registered by a call that returns handle id
PlayToAnim(cur, y, p, d, id) ==
    [id |-> id, targetYaw |-> y, targetPitch |-> p, duration |-> d, elapsed |-> 0]

\* animate: the transition phase of a tick that comes dt after the previous
\* one; the result is <<yaw, pitch, animState, id of the handle resolved or 0>>
AnimPhase(y, p, a, dt) ==
    IF a.id = 0 THEN <<y, p, a, 0>>
    ELSE LET el == a.elapsed + dt
             pr == Progress(el, a.duration)
             e  == easeInOutCubic(pr[1], pr[2])
         IN IF pr[1] >= pr[2]
            THEN <<a.targetYaw, a.targetPitch, NoAnim, a.id>>
            ELSE <<Interpolate(y, a.targetYaw, e), Interpolate(p, a.targetPitch, e),
                   [a EXCEPT !.elapsed = el], 0>>

\* an auto-play condition that forgets the drag
AutoGateIgnoresDrag(playing, dragging, a) == playing /\ a.id = 0

\* animate: the condition of the auto-play branch, read after the transition phase
AutoGate(playing, dragging, a) == playing /\ ~dragging /\ a.id = 0

\* animate: (state.yaw + autoPlaySpeed / 60) % 360
AutoStep(y) == JsRem(y + (Deg(AutoPlaySpeed) \div AssumedFps), FullTurn)

(* ------------------------------ actions -------------------------------- *)

\* controller.setYaw(thetaDeg, {snap})
SetYaw(theta, snap) ==
    /\ yaw' = SetYawValue(Deg(theta), snap)
    /\ frameIndex' = Render(yaw', frameIndex)
    /\ last' = Emitted(yaw', pitch, RenderEmits(yaw'))
    /\ UNCHANGED <<pitch, isDragging, isPlaying, animState, drag, handles, texturesLen>>
    /\ UNCHANGED <<aux, services>>

\* controller.setPitch(phiDeg)
SetPitch(phi) ==
    /\ pitch' = SetPitchValue(Deg(phi))
    /\ frameIndex' = Render(yaw, frameIndex)
    /\ last' = Emitted(yaw, pitch', RenderEmits(yaw))
    /\ UNCHANGED <<yaw, isDragging, isPlaying, animState, drag, handles, texturesLen>>
    /\ UNCHANGED <<aux, services>>

\* controller.playTo(yaw, pitch, secs): registers the transition, returns a promise
PlayToRegisters(y, p, d) ==
    /\ Len(handles) < MaxPlayTo
    /\ animState' = PlayToAnim(animState, Deg(y), Deg(p), d, Len(handles) + 1)
    /\ handles' = Append(handles, [yaw |-> Deg(y), pitch |-> Deg(p),
                                   st |-> "pending", resolves |-> 0])
    /\ last' = Called
    /\ UNCHANGED <<yaw, pitch, frameIndex, isDragging, isPlaying, drag, texturesLen>>

PlayTo(y, p, d) == PlayToRegisters(y, p, d) /\ UNCHANGED <<aux, services>>

\* controller.pause()
Pause ==
    /\ isPlaying' = FALSE
    /\ last' = Called
    /\ UNCHANGED <<yaw, pitch, frameIndex, isDragging, animState, drag, handles, texturesLen>>
    /\ UNCHANGED <<aux, services>>

\* controller.resume()
Resume ==
    /\ isPlaying' = TRUE
    /\ last' = Called
    /\ UNCHANGED <<yaw, pitch, frameIndex, isDragging, animState, drag, handles, texturesLen>>
    /\ UNCHANGED <<aux, services>>

\* animate(timestamp): one render tick, dt after the previous one
Tick(dt) ==
    LET ph   == AnimPhase(yaw, pitch, animState, dt)
        auto == AutoGate(isPlaying, isDragging, ph[3])
    IN /\ yaw' = IF auto THEN AutoStep(ph[1]) ELSE ph[1]
       /\ pitch' = ph[2]
       /\ animState' = ph[3]
       /\ handles' = IF ph[4] = 0 THEN handles
                     ELSE [handles EXCEPT ![ph[4]].st = "resolved",
                                          ![ph[4]].resolves = @ + 1]
       /\ frameIndex' = Render(yaw', frameIndex)
       /\ last' = [NoLast EXCEPT !.op = "tick", !.done = ph[4], !.auto = auto,
                                 !.dt = IF auto THEN dt ELSE 0, !.base = ph[1],
                                 !.angle = IF auto THEN <<yaw', pitch'>> ELSE <<>>,
                                 !.frame = RenderEmits(yaw')]
       /\ UNCHANGED <<isDragging, isPlaying, drag, texturesLen>>
       /\ UNCHANGED <<aux, services>>

\* handlePointerDown(e)  (enableDrag = true)
PointerDown(x, y) ==
    /\ drag' = [active |-> TRUE, startX |-> x, startY |-> y, startYaw |-> yaw,
                startPitch |-> pitch, lastX |-> x, lastY |-> y]
    /\ isDragging' = TRUE
    /\ last' = Called
    /\ UNCHANGED <<yaw, pitch, frameIndex, isPlaying, animState, handles, texturesLen>>
    /\ UNCHANGED <<aux, services>>

\* handlePointerMove(e): sensitivity 0.5 on yaw, 0.5 * 0.5 on pitch
PointerMove(x, y) ==
    /\ drag.active /\ isDragging
    /\ drag' = [drag EXCEPT !.lastX = x, !.lastY = y]
    /\ yaw' = SetYawValue(drag.startYaw - (Deg(x - drag.startX) \div 2), FALSE)
    /\ pitch' = SetPitchValue(drag.startPitch + (Deg(y - drag.startY) \div 4))
    /\ frameIndex' = Render(yaw', frameIndex)
    /\ last' = Emitted(yaw', pitch', RenderEmits(yaw'))
    /\ UNCHANGED <<isDragging, isPlaying, animState, handles, texturesLen>>
    /\ UNCHANGED <<aux, services>>

\* handlePointerUp(e)
PointerUp ==
    /\ drag.active
    /\ isDragging' = FALSE
    /\ drag' = NoDrag
    /\ last' = [NoLast EXCEPT !.op = "up", !.startYaw = drag.startYaw,
                              !.totalDx = drag.lastX - drag.startX]
    /\ UNCHANGED <<yaw, pitch, frameIndex, isPlaying, animState, handles, texturesLen>>
    /\ UNCHANGED <<aux, services>>

\* The host calls the controller between gestures, not while the pointer is
\* down; render ticks and pointer events come at any time.
HostIdle == ~isDragging

Next ==
    \/ \E t \in YawInputs, s \in BOOLEAN : HostIdle /\ SetYaw(t, s)
    \/ \E p \in PitchInputs : HostIdle /\ SetPitch(p)
    \/ \E tg \in PlayTargets, d \in DurSet : HostIdle /\ PlayTo(tg[1], tg[2], d)
    \/ HostIdle /\ Pause
    \/ HostIdle /\ Resume
    \/ \E dt \in DtSet : Tick(dt)
    \/ \E x \in DownXs, y \in DownYs : PointerDown(x, y)
    \/ \E x \in MoveXs, y \in MoveYs : PointerMove(x, y)
    \/ PointerUp

Spec == Init /\ [][Next]_vars

\* requestAnimationFrame(animate) is re-armed at the end of every tick, so
\* render ticks keep coming
RenderTick == \E dt \in DtSet : Tick(dt)

\* the transition machinery alone: host calls of playTo, pause and resume
\* between render ticks that keep coming
TransitionNext ==
    \/ \E tg \in PlayTargets, d \in DurSet : PlayTo(tg[1], tg[2], d)
    \/ Pause
    \/ Resume
    \/ RenderTick
TransitionSpec == Init /\ [][TransitionNext]_vars /\ WF_vars(RenderTick)

(* ------------------------------ claims --------------------------------- *)

Latest == handles[Len(handles)]
BelowThreshold(dx) == 3 * Abs(dx) < Width
AboveThreshold(dx) == 3 * Abs(dx) > Width

\* C1: a pending transition is always the one registered by the latest playTo
\* call (an earlier one is replaced, not queued); a tick of a pending
\* transition moves yaw and pitch no further from the latest call's target,
\* and a completion resolves the latest call's handle and assigns its target.
C1_LastWriterWins ==
    [][ /\ animState'.id # 0 =>
              /\ animState'.id = Len(handles')
              /\ animState'.targetYaw = handles'[Len(handles')].yaw
              /\ animState'.targetPitch = handles'[Len(handles')].pitch
        /\ (last'.op = "tick" /\ animState.id # 0) =>
              /\ Abs(Latest.yaw - last'.base) <= Abs(Latest.yaw - yaw)
              /\ Abs(Latest.pitch - pitch') <= Abs(Latest.pitch - pitch)
        /\ (last'.op = "tick" /\ last'.done # 0) =>
              /\ last'.done = Len(handles)
              /\ last'.base = Latest.yaw
              /\ pitch' = Latest.pitch ]_vars

\* C1 witness: a second playTo replaced a pending first one with another
\* target, and the tick that completed resolved the second
C1_Witness ==
    /\ Len(handles) = 2
    /\ handles[1].yaw # handles[2].yaw
    /\ handles[1].st = "pending"
    /\ last.op = "tick" /\ last.done = 2

\* C2: every handle returned by playTo is eventually settled, also the handle
\* of a call that a later playTo superseded.
C2_EveryHandleSettles ==
    \A h \in 1..MaxPlayTo :
        [](Len(handles) >= h => <>(Len(handles) >= h /\ handles[h].st # "pending"))

\* C3: the tick that completes a transition resolves its handle exactly once,
\* clears the pending transition and leaves yaw and pitch at the target.
C3_CompletesAtTarget ==
    (last.op = "tick" /\ last.done # 0) =>
        /\ handles[last.done].st = "resolved"
        /\ handles[last.done].resolves = 1
        /\ animState.id = 0
        /\ yaw = handles[last.done].yaw
        /\ pitch = handles[last.done].pitch

\* C4: the stored yaw is in [0, 360) in every reachable state.
C4_YawInRange == 0 <= yaw /\ yaw < FullTurn

\* C5: the stored pitch is within the ring range in every reachable state.
C5_PitchInRange == MinPhi <= pitch /\ pitch <= MaxPhi

\* C6: while a drag is active no transition is pending.
C6_DragSupersedes == isDragging => animState.id = 0

\* C7: after a release below the threshold the yaw is back at the pre-drag
\* yaw once no revert transition is pending any more.
C7_RevertsBelowThreshold ==
    (last.op = "up" /\ BelowThreshold(last.totalDx) /\ animState.id = 0) =>
        yaw = last.startYaw

\* C8: after a release above the threshold the yaw is the angle of the frame
\* next to the pre-drag frame in the drag direction (a drag to the right
\* lowers the yaw), once no commit transition is pending any more.
C8_CommitsAboveThreshold ==
    (last.op = "up" /\ AboveThreshold(last.totalDx) /\ animState.id = 0) =>
        LET i0  == PhaseI(last.startYaw, FrameCount)
            adj == IF last.totalDx > 0 THEN (i0 + FrameCount - 1) % FrameCount
                                       ELSE (i0 + 1) % FrameCount
        IN yaw = angleForIndex(adj, FrameCount)

\* C9: a tick in which the viewer is dragging, paused or still has a pending
\* transition leaves the yaw as the transition phase left it; auto-rotation
\* changes the yaw only when playing, not dragging and nothing is pending.
C9_AutoGating ==
    last.op = "tick" =>
        /\ (isDragging \/ ~isPlaying \/ animState.id # 0) =>
               (yaw = last.base /\ ~last.auto)
        /\ yaw # last.base => (isPlaying /\ ~isDragging /\ animState.id = 0)

\* C9 witness: a tick during a drag of a playing viewer with nothing pending
C9_Witness ==
    /\ last.op = "tick" /\ isDragging /\ isPlaying /\ animState.id = 0
    /\ yaw = last.base

\* C10: an auto-rotation tick advances the yaw by the rate times the time
\* elapsed since the previous tick, modulo 360.
C10_WallClockRate ==
    (last.op = "tick" /\ last.auto) =>
        yaw = (last.base + (Deg(AutoPlaySpeed) * last.dt) \div AssumedFps) % FullTurn

\* C12: a render emits 'frame' only when the frame index it resolves differs
\* from the index resolved by the previous render (which frameIndex holds);
\* renders that resolve the same index emit no 'frame' event.
C12_FrameOnlyOnChange ==
    [][ last'.frame # 0 - 1 => last'.frame # frameIndex ]_vars

\* C13: every step that changes the stored yaw or pitch (setYaw, setPitch,
\* a transition tick, an auto-rotation tick) emits an 'angle' event whose
\* payload is the new yaw and pitch.
C13_AngleOnEveryChange ==
    [][ (yaw' # yaw \/ pitch' # pitch) => last'.angle = <<yaw', pitch'>> ]_vars

(* ========================= zoom and parallax ============================ *)

\* manifest.zoom.max values (1/ZoomUnit) and manifest.parallax_max values
\* (1/ParallaxUnit) a viewer is built with; 0 = no manifest
ManifestZoomMax == {0, 20}
ManifestParallaxMax == {0, 40}
\* arguments of setZoom (1/ZoomUnit): 0.1, 1, 1.1, 1.5, 5, -2
ZoomInputs == {1, 10, 11, 15, 50, 0 - 20}
\* arguments of setParallax (1/ParallaxUnit)
ParallaxInputs == {0 - 5, 10, 30, 50}
\* the sign of e.deltaY of a wheel event
WheelDeltaYs == {0 - 1, 1}

\* manifest?.zoom?.max || DEFAULT_ZOOM_MAX
ZoomMaxOf(pr) == IF pr.zoomMax = 0 THEN DEFAULT_ZOOM_MAX ELSE pr.zoomMax
\* manifest?.parallax_max || DEFAULT_PARALLAX_MAX
ParallaxMaxOf(pr) == IF pr.parallaxMax = 0 THEN DEFAULT_PARALLAX_MAX ELSE pr.parallaxMax

\* a zoom clamp with no floor
SetZoomValueNoFloor(z, zmax) == Min2(zmax, z)

\* setZoom: Math.max(1, Math.min(zoomMax, z))
SetZoomValue(z, zmax) == Max2(ZoomUnit, Min2(zmax, z))

\* setParallax: Math.max(0, Math.min(parallaxMax, p))
SetParallaxValue(p, pmax) == Max2(0, Min2(pmax, p))

\* what a step of this part records: the call made and the one before it
Made(fn, arg) == [fn |-> fn, arg |-> arg, prev |-> call.fn]

\* a setZoom that does not look at enableZoom
SetZoomUngated(z) ==
    /\ call' = Made("setZoom", z)
    /\ ret' = [fn |-> "setZoom", threw |-> FALSE]
    /\ zoom' = SetZoomValue(z, ZoomMaxOf(props))
    /\ frameIndex' = Render(yaw, frameIndex)
    /\ last' = [NoLast EXCEPT !.frame = RenderEmits(yaw)]
    /\ UNCHANGED <<yaw, pitch, isDragging, isPlaying, animState, drag, handles,
                   texturesLen, parallax, props, listeners, services>>

\* controller.setZoom(z)
SetZoom(z) ==
    /\ call' = Made("setZoom", z)
    /\ ret' = [fn |-> "setZoom", threw |-> FALSE]
    /\ IF ~props.enableZoom
       THEN UNCHANGED <<zoom, frameIndex, last>>
       ELSE /\ zoom' = SetZoomValue(z, ZoomMaxOf(props))
            /\ frameIndex' = Render(yaw, frameIndex)
            /\ last' = [NoLast EXCEPT !.frame = RenderEmits(yaw)]
    /\ UNCHANGED <<yaw, pitch, isDragging, isPlaying, animState, drag, handles,
                   texturesLen, parallax, props, listeners, services>>

\* controller.setParallax(p)
SetParallax(p) ==
    /\ call' = Made("setParallax", p)
    /\ ret' = [fn |-> "setParallax", threw |-> FALSE]
    /\ IF ~props.enableParallax
       THEN UNCHANGED <<parallax, frameIndex, last>>
       ELSE /\ parallax' = SetParallaxValue(p, ParallaxMaxOf(props))
            /\ frameIndex' = Render(yaw, frameIndex)
            /\ last' = [NoLast EXCEPT !.frame = RenderEmits(yaw)]
    /\ UNCHANGED <<yaw, pitch, isDragging, isPlaying, animState, drag, handles,
                   texturesLen, zoom, props, listeners, services>>

\* handleWheel(e): delta = e.deltaY > 0 ? -0.1 : 0.1; setZoom(zoom + delta)
Wheel(deltaY) ==
    LET z == zoom + (IF deltaY > 0 THEN 0 - 1 ELSE 1)
    IN /\ call' = Made("wheel", z)
       /\ ret' = [fn |-> "wheel", threw |-> FALSE]
       /\ IF ~props.enableZoom
          THEN UNCHANGED <<zoom, frameIndex, last>>
          ELSE /\ zoom' = SetZoomValue(z, ZoomMaxOf(props))
               /\ frameIndex' = Render(yaw, frameIndex)
               /\ last' = [NoLast EXCEPT !.frame = RenderEmits(yaw)]
       /\ UNCHANGED <<yaw, pitch, isDragging, isPlaying, animState, drag, handles,
                      texturesLen, parallax, props, listeners, services>>

\* a viewer built with any combination of the capability props and manifests
ZoomInit ==
    /\ ServicesInit
    /\ ViewerInit
    /\ zoom = ZoomUnit
    /\ parallax = 0
    /\ props \in [enableZoom : BOOLEAN, enableParallax : BOOLEAN,
                  zoomMax : ManifestZoomMax, parallaxMax : ManifestParallaxMax]
    /\ listeners = [k \in EventKinds |-> <<>>]
    /\ call = NoCall
    /\ ret = NoCall

ZoomNext ==
    \/ \E z \in ZoomInputs : SetZoom(z)
    \/ \E p \in ParallaxInputs : SetParallax(p)
    \/ \E d \in WheelDeltaYs : Wheel(d)

ZoomSpec == ZoomInit /\ [][ZoomNext]_vars

\* C14: with zoom enabled, after setZoom(z), called directly or by the wheel
\* handler, the stored zoom is min(max(z, 1), zoomMax), so it lies in
\* [1, zoomMax], and the call does not throw; with zoomMax = 1.2, setZoom(5)
\* stores 1.2 and setZoom(0.1) stores 1.
C14_ZoomClamped ==
    (call.fn \in {"setZoom", "wheel"} /\ props.enableZoom) =>
        LET zmax == ZoomMaxOf(props)
            lo   == IF call.arg > ZoomUnit THEN call.arg ELSE ZoomUnit
        IN /\ zoom = (IF lo < zmax THEN lo ELSE zmax)
           /\ ZoomUnit <= zoom /\ zoom <= zmax
           /\ ~ret.threw
           /\ (call.fn = "setZoom" /\ zmax = 12 /\ call.arg = 50) => zoom = 12
           /\ (call.fn = "setZoom" /\ zmax = 12 /\ call.arg = 1) => zoom = 10

\* two wheel events in a row, the second asking for more than zoomMax
C14_Witness ==
    /\ call.fn = "wheel" /\ call.prev = "wheel" /\ props.enableZoom
    /\ call.arg > ZoomMaxOf(props)
    /\ zoom = ZoomMaxOf(props)

\* C15: a setZoom made while the zoom capability is disabled, and a
\* setParallax made while the parallax capability is disabled, leave every
\* field of ViewerState (yaw, pitch, zoom, parallax, frameIndex, isDragging,
\* isPlaying) unchanged.
C15_DisabledIsNoOp ==
    [][ (\/ call'.fn = "setZoom" /\ ~props.enableZoom
         \/ call'.fn = "setParallax" /\ ~props.enableParallax) =>
            UNCHANGED <<yaw, pitch, zoom, parallax, frameIndex, isDragging, isPlaying>> ]_vars

\* both capabilities disabled; setZoom(5) and then setParallax(0.03) were called
C15_Witness ==
    /\ ~props.enableZoom /\ ~props.enableParallax
    /\ call.fn = "setParallax" /\ call.arg = 30 /\ call.prev = "setZoom"
    /\ zoom = ZoomUnit /\ parallax = 0

(* ============== phase helpers: phaseParams, sphericalNeighbors ========== *)

\* yaw arguments (degrees): negative, zero, inside a step, on a step
\* boundary, and one or two turns and more
ThetaInputs == {0 - 725, 0 - 360, 0 - 90, 0 - 10, 0 - 1, 0, 14, 15, 20, 29, 30,
                45, 359, 360, 375, 400, 735}
\* frame counts (frames, framesPerRing)
FrameCounts == {1, 2, 8, 12}
\* pitch arguments (degrees): below, on, between and above the rings
PhiInputs == {0 - 40, 0 - 15, 0, 10, 15, 40}
\* ring lists, as the sequence of the rings' phi (degrees), in the caller's order
RingLists == {<<0>>, <<0 - 15, 0, 15>>, <<15, 0 - 15>>, <<0, 0>>, <<0, 15, 0>>}

\* floor(a / b) for b > 0
Floor(a, b) == IF a >= 0 THEN a \div b ELSE 0 - (((0 - a) + b - 1) \div b)

\* phaseParams(thetaDeg, frames); t and stepDeg are fractions <<num, den>>,
\* stepDeg in 1/Scale degrees
phaseParams(theta, n) ==
    LET norm == Normalize(theta)
        fl   == (norm * n) \div FullTurn
        i    == JsRem(fl, n)
    IN [fn |-> "phaseParams", i |-> i, j |-> JsRem(i + 1, n),
        t |-> <<norm * n - fl * FullTurn, FullTurn>>, stepDeg |-> <<FullTurn, n>>]

\* [...rings].sort((a, b) => a.phi - b.phi)
RECURSIVE SortPhis(_)
SortPhis(rs) ==
    IF rs = <<>> THEN <<>>
    ELSE LET m    == SetMin({rs[x] : x \in 1..Len(rs)})
             at   == CHOOSE x \in 1..Len(rs) : rs[x] = m /\ \A y \in 1..(x - 1) : rs[y] # m
             rest == [x \in 1..(Len(rs) - 1) |-> IF x < at THEN rs[x] ELSE rs[x + 1]]
         IN <<m>> \o SortPhis(rest)

\* the for loop of sphericalNeighbors: the first adjacent pair of the sorted
\* rings that brackets phi gives <<r0, r1, tPhi>>; tPhi is the fraction
\* (phi - r0) / (r1 - r0), whose denominator is 0 when the two rings have the
\* same phi (0 / 0 = NaN in the source)
Bracket(sorted, phi) ==
    LET hits == {x \in 1..(Len(sorted) - 1) : phi >= sorted[x] /\ phi <= sorted[x + 1]}
    IN IF hits = {} THEN <<sorted[1], sorted[1], <<0, 1>>>>
       ELSE LET x == SetMin(hits)
            IN <<sorted[x], sorted[x + 1], <<phi - sorted[x], sorted[x + 1] - sorted[x]>>>>

\* sphericalNeighbors(thetaDeg, phiDeg, rings, framesPerRing): the neighbours
\* in the order returned; a weight is a fraction <<num, den>> and den = 0
\* stands for NaN
sphericalNeighbors(theta, phi, rings, n) ==
    LET k      == Floor(theta * n, FullTurn)
        tTheta == <<theta * n - k * FullTurn, FullTurn>>
        sorted == SortPhis(rings)
        b      == Bracket(sorted, phi)
        c      == IF phi < sorted[1] THEN <<sorted[1], sorted[1], <<0, 1>>>>
                  ELSE IF phi > sorted[Len(sorted)]
                       THEN <<sorted[Len(sorted)], sorted[Len(sorted)], <<0, 1>>>>
                       ELSE b
        tPhi   == c[3]
        den    == tTheta[2] * tPhi[2]
        f0     == JsRem(k, n)
        f1     == JsRem(k + 1, n)
    IN [fn |-> "sphericalNeighbors",
        neighbors |-> <<
           [ring |-> c[1], frame |-> f0,
            weight |-> <<(tTheta[2] - tTheta[1]) * (tPhi[2] - tPhi[1]), den>>],
           [ring |-> c[1], frame |-> f1,
            weight |-> <<tTheta[1] * (tPhi[2] - tPhi[1]), den>>],
           [ring |-> c[2], frame |-> f0,
            weight |-> <<(tTheta[2] - tTheta[1]) * tPhi[1], den>>],
           [ring |-> c[2], frame |-> f1,
            weight |-> <<tTheta[1] * tPhi[1], den>> ] >>,
        tTheta |-> tTheta, tPhi |-> tPhi]

\* the calls a host makes: the function and its arguments (1/Scale degrees)
HelperCalls ==
    {[fn |-> "phaseParams", theta |-> Deg(th), n |-> n] :
        th \in ThetaInputs, n \in FrameCounts}
    \cup {[fn |-> "sphericalNeighbors", theta |-> Deg(th), phi |-> Deg(ph),
           rings |-> [x \in 1..Len(rs) |-> Deg(rs[x])], n |-> n] :
        th \in ThetaInputs, ph \in PhiInputs, rs \in RingLists, n \in FrameCounts}
    \cup {[fn |-> "snap", theta |-> Deg(th), n |-> n] :
        th \in ThetaInputs, n \in FrameCounts}

\* a call is about to be made
HelperInit ==
    /\ ServicesInit
    /\ ViewerInit
    /\ zoom = ZoomUnit
    /\ parallax = 0
    /\ props = DefaultProps
    /\ listeners = [k \in EventKinds |-> <<>>]
    /\ call \in HelperCalls
    /\ ret = NoCall

\* phaseParams(theta, n) returns
CallPhaseParams ==
    /\ call.fn = "phaseParams" /\ ret = NoCall
    /\ ret' = phaseParams(call.theta, call.n)
    /\ UNCHANGED <<viewer, services, last, zoom, parallax, props, listeners, call>>

\* sphericalNeighbors(theta, phi, rings, n) returns
CallSphericalNeighbors ==
    /\ call.fn = "sphericalNeighbors" /\ ret = NoCall
    /\ ret' = sphericalNeighbors(call.theta, call.phi, call.rings, call.n)
    /\ UNCHANGED <<viewer, services, last, zoom, parallax, props, listeners, call>>

\* setYaw(theta, {snap: true}) on a viewer of n frames: the yaw it stores
CallSnap ==
    /\ call.fn = "snap" /\ ret = NoCall
    /\ ret' = [fn |-> "snap", yaw |-> SnapYaw(call.theta, call.n)]
    /\ UNCHANGED <<viewer, services, last, zoom, parallax, props, listeners, call>>

HelperNext ==
    \/ CallPhaseParams
    \/ CallSphericalNeighbors
    \/ CallSnap

HelperSpec == HelperInit /\ [][HelperNext]_vars

\* theta normalized into [0, 360): the one value congruent to theta in that range
NormOf(theta) == CHOOSE x \in 0..(FullTurn - 1) : (theta - x) % FullTurn = 0
\* the distance around the circle between two angles of [0, 360)
CircDist(a, b) == Min2(Abs(a - b), FullTurn - Abs(a - b))

\* C16: setYaw(theta, {snap: true}) stores the frame angle k * (360 / n) that
\* is nearest to the normalized theta, around the circle (so a theta nearest
\* to 360 snaps to 0).
C16_SnapToNearest ==
    ret.fn = "snap" =>
        LET norm == NormOf(call.theta)
            n    == call.n
        IN /\ \E k \in 0..(n - 1) : ret.yaw * n = k * FullTurn
           /\ \A m \in 0..(n - 1) :
                 CircDist(ret.yaw, norm) <= CircDist((m * FullTurn) \div n, norm)

\* C17: phaseParams(theta, N), with norm = theta normalized into [0, 360) and
\* step = 360 / N, returns i = floor(norm / step) mod N in [0, N),
\* j = (i + 1) mod N, t = frac(norm / step) in [0, 1) and stepDeg = step;
\* adding whole turns to theta changes nothing; phaseParams(0, 12) is
\* {i: 0, j: 1, t: 0, stepDeg: 30}, phaseParams(15, 12) has i = 0, j = 1,
\* t = 0.5, and phaseParams(360, 12) = phaseParams(0, 12).
C17_PhaseParams ==
    ret.fn = "phaseParams" =>
        LET norm == NormOf(call.theta)
            n    == call.n
        IN /\ 0 <= ret.i /\ ret.i < n
           /\ ret.i * FullTurn <= norm * n /\ norm * n < (ret.i + 1) * FullTurn
           /\ ret.j = (ret.i + 1) % n
           /\ ret.t[2] > 0 /\ 0 <= ret.t[1] /\ ret.t[1] < ret.t[2]
           /\ ret.t[1] * FullTurn = (norm * n - ret.i * FullTurn) * ret.t[2]
           /\ ret.stepDeg[1] * n = FullTurn * ret.stepDeg[2]
           /\ \A k \in {0 - 2, 0 - 1, 1, 2} :
                 phaseParams(call.theta + k * FullTurn, n) = ret
           /\ (call.theta = 0 /\ n = 12) =>
                 /\ ret.i = 0 /\ ret.j = 1 /\ ret.t[1] = 0
                 /\ ret.stepDeg[1] = Deg(30) * ret.stepDeg[2]
           /\ (call.theta = Deg(15) /\ n = 12) =>
                 ret.i = 0 /\ ret.j = 1 /\ 2 * ret.t[1] = ret.t[2]
           /\ (call.theta = Deg(360) /\ n = 12) => ret = phaseParams(0, 12)

\* phaseParams(-10, 12) returned the last frame, wrapping to frame 0, two
\* thirds of the way
C17_Witness ==
    /\ ret.fn = "phaseParams" /\ call.theta = Deg(0 - 10) /\ call.n = 12
    /\ ret.i = 11 /\ ret.j = 0 /\ 3 * ret.t[1] = 2 * ret.t[2]

\* C18: for every theta, every phi and every non-empty ring list, each of
\* the four weights sphericalNeighbors returns is a number in [0, 1] and the
\* four weights sum to 1.
C18_WeightsSumToOne ==
    ret.fn = "sphericalNeighbors" =>
        LET w(x) == ret.neighbors[x].weight
        IN /\ \A x \in 1..4 : w(x)[2] > 0 /\ 0 <= w(x)[1] /\ w(x)[1] <= w(x)[2]
           /\ w(1)[1] + w(2)[1] + w(3)[1] + w(4)[1] = w(1)[2]

\* C19: the frame indices sphericalNeighbors returns for each ring are the i
\* and j of phaseParams(theta, framesPerRing), hence in [0, framesPerRing),
\* for every theta, negative theta and theta >= 360 included.
C19_NeighboursArePhaseParams ==
    ret.fn = "sphericalNeighbors" =>
        LET pp == phaseParams(call.theta, call.n)
        IN /\ ret.neighbors[1].frame = pp.i /\ ret.neighbors[3].frame = pp.i
           /\ ret.neighbors[2].frame = pp.j /\ ret.neighbors[4].frame = pp.j
           /\ \A x \in 1..4 :
                 0 <= ret.neighbors[x].frame /\ ret.neighbors[x].frame < call.n

(* ======================= event dispatch (emit) ========================== *)

\* subscriptions held at a time, over all event kinds
MaxSubscribers == 4

\* the callbacks a host registers; calling one of Throwing raises an exception
Callbacks == {"f", "g", "bad"}
Throwing == {"bad"}

\* Set.prototype.delete on an insertion-ordered set
Without(ls, cb) == SelectSeq(ls, LAMBDA c : c # cb)
SeqToSet(ls) == {ls[n] : n \in 1..Len(ls)}
RECURSIVE SizeOver(_)
SizeOver(S) ==
    IF S = {} THEN 0
    ELSE LET k == CHOOSE x \in S : TRUE IN Len(listeners[k]) + SizeOver(S \ {k})
Subscriptions == SizeOver(EventKinds)

\* an emit with no try/catch: the first throwing listener ends the forEach
RECURSIVE emitUncaught(_)
emitUncaught(ls) ==
    IF ls = <<>> THEN [invoked |-> <<>>, propagated |-> FALSE]
    ELSE IF Head(ls) \in Throwing THEN [invoked |-> <<Head(ls)>>, propagated |-> TRUE]
    ELSE LET r == emitUncaught(Tail(ls))
         IN [invoked |-> <<Head(ls)>> \o r.invoked, propagated |-> r.propagated]

\* emit(event, value) on the listeners ls of the event: forEach calls each
\* callback inside try/catch; the result tells which callbacks were called
\* and whether an exception left emit
RECURSIVE emit(_)
emit(ls) ==
    IF ls = <<>> THEN [invoked |-> <<>>, propagated |-> FALSE]
    ELSE LET r == emit(Tail(ls))
         IN [invoked |-> <<Head(ls)>> \o r.invoked, propagated |-> r.propagated]

\* controller.on(event, cb)
On(k, cb) ==
    /\ cb \in SeqToSet(listeners[k]) \/ Subscriptions < MaxSubscribers
    /\ listeners' = [listeners EXCEPT ![k] =
                        IF cb \in SeqToSet(@) THEN @ ELSE Append(@, cb)]
    /\ call' = NoCall
    /\ ret' = NoCall
    /\ UNCHANGED <<viewer, services, last, zoom, parallax, props>>

\* controller.off(event, cb)
Off(k, cb) ==
    /\ listeners' = [listeners EXCEPT ![k] = Without(@, cb)]
    /\ call' = NoCall
    /\ ret' = NoCall
    /\ UNCHANGED <<viewer, services, last, zoom, parallax, props>>

\* one emit(k, value) made by a controller method or a pointer handler
EmitEvent(k) ==
    /\ call' = [fn |-> "emit", kinds |-> <<k>>]
    /\ ret' = LET r == emit(listeners[k])
              IN [fn |-> "emit", invoked |-> <<r.invoked>>, propagated |-> r.propagated,
                  scheduled |-> FALSE]
    /\ UNCHANGED <<viewer, services, last, zoom, parallax, props, listeners>>

\* the emits of one animate(): 'angle' when the tick auto-rotates, then the
\* 'frame' of render(), then requestAnimationFrame unless an exception ended
\* the callback before that line
AnimateEmits(auto) ==
    /\ call' = [fn |-> "animate", kinds |-> IF auto THEN <<"angle", "frame">> ELSE <<"frame">>]
    /\ ret' = LET a == IF auto THEN emit(listeners["angle"])
                               ELSE [invoked |-> <<>>, propagated |-> FALSE]
                  f == IF a.propagated THEN [invoked |-> <<>>, propagated |-> TRUE]
                                       ELSE emit(listeners["frame"])
              IN [fn |-> "animate",
                  invoked |-> IF auto THEN <<a.invoked, f.invoked>> ELSE <<f.invoked>>,
                  propagated |-> f.propagated,
                  scheduled |-> ~f.propagated]
    /\ UNCHANGED <<viewer, services, last, zoom, parallax, props, listeners>>

EmitNext ==
    \/ \E k \in EventKinds, cb \in Callbacks : On(k, cb)
    \/ \E k \in EventKinds, cb \in Callbacks : Off(k, cb)
    \/ \E k \in EventKinds : EmitEvent(k)
    \/ \E auto \in BOOLEAN : AnimateEmits(auto)

EmitSpec == Init /\ [][EmitNext]_vars

\* C11: for every event kind, an emission reaches every subscriber of the
\* event, in registration order, also those registered after one that throws;
\* no exception leaves emit; and a render tick whose emits met a throwing
\* subscriber still re-arms requestAnimationFrame.
C11_CatchAndContinue ==
    ret.fn \in {"emit", "animate"} =>
        /\ \A n \in 1..Len(call.kinds) : ret.invoked[n] = listeners[call.kinds[n]]
        /\ ~ret.propagated
        /\ ret.fn = "animate" => ret.scheduled

\* a tick emitted 'angle' and 'frame', each to a throwing subscriber followed
\* by another one
C11_Witness ==
    /\ ret.fn = "animate" /\ Len(call.kinds) = 2
    /\ \A n \in 1..2 :
          /\ Len(listeners[call.kinds[n]]) = 2
          /\ listeners[call.kinds[n]][1] \in Throwing
          /\ listeners[call.kinds[n]][2] \notin Throwing
          /\ ret.invoked[n][2] = listeners[call.kinds[n]][2]
    /\ ret.scheduled

(* ===================== frame stabilizer (normalize.ts) ================== *)
(* JavaScript numbers are binary floating point: every arithmetic result   *)
(* is the representable number nearest to the exact one, ties to the even  *)
(* significand.  The source computes with a 53-bit significand; here a     *)
(* number is <<m, e>> = m * 2^e with a significand m of Precision bits     *)
(* (m = 0, or 2^(Precision-1) <= m < 2^Precision), and the operations      *)
(* round in the same way.                                                  *)

\* bits of the significand
Precision == 13
\* frames in a sprite sheet (cols * rows)
MinFrames == 4
MaxFrames == 5

\* foreground pixel counts of a frame: empty, typical, four times larger
AreaInputs == {0, 100, 400}
\* options.smoothWindow
SmoothWindows == {5}
\* options.scaleClamp = 0.03, as <<numerator, denominator>> of the literal
ScaleClamp == <<3, 100>>

Pow2(n) == 2 ^ n

\* -a
Neg(a) == <<0 - a[1], a[2]>>

\* the number nearest to (n / d) * 2^e, for integers n >= 0 and d > 0
RECURSIVE NumRoundAbs(_, _, _)
NumRoundAbs(n, d, e) ==
    IF n = 0 THEN <<0, 0>>
    ELSE IF n >= d * Pow2(Precision) THEN NumRoundAbs(n, 2 * d, e + 1)
    ELSE IF n < d * Pow2(Precision - 1) THEN NumRoundAbs(2 * n, d, e - 1)
    ELSE LET k  == n \div d
             r  == n - k * d
             k1 == IF 2 * r > d \/ (2 * r = d /\ k % 2 = 1) THEN k + 1 ELSE k
         IN IF k1 = Pow2(Precision) THEN <<k1 \div 2, e + 1>> ELSE <<k1, e>>

\* the number nearest to (n / d) * 2^e, for integers n and d > 0; rounding is
\* symmetric about 0 (a number with m < 0 is negative)
NumRound(n, d, e) ==
    IF n < 0 THEN Neg(NumRoundAbs(0 - n, d, e)) ELSE NumRoundAbs(n, d, e)

\* an integer, or a decimal literal n / d, as a number
Num(n) == NumRound(n, 1, 0)
Literal(q) == NumRound(q[1], q[2], 0)

\* a * b, a / b (for b > 0), a + b and a - b
Times(a, b) == NumRound(a[1] * b[1], 1, a[2] + b[2])
Over(a, b) == NumRound(a[1], b[1], a[2] - b[2])
Plus(a, b) ==
    IF a[1] = 0 THEN b
    ELSE IF b[1] = 0 THEN a
    ELSE LET hi == IF a[2] >= b[2] THEN a ELSE b
             lo == IF a[2] >= b[2] THEN b ELSE a
         IN IF hi[2] - lo[2] > Precision + 1 THEN hi
            ELSE NumRound(hi[1] * Pow2(hi[2] - lo[2]) + lo[1], 1, lo[2])
Minus(a, b) == Plus(a, Neg(b))

\* a < b (the rounded difference has the sign of the exact one), Math.max
\* and Math.min
Less(a, b) == Minus(a, b)[1] < 0
MathMax(a, b) == IF Less(a, b) THEN b ELSE a
MathMin(a, b) == IF Less(b, a) THEN b ELSE a

\* the integer square root of x, found bit by bit from bit b down
RECURSIVE ISqrt(_, _, _)
ISqrt(x, r, b) ==
    IF b < 0 THEN r
    ELSE LET c == r + Pow2(b)
         IN ISqrt(x, IF c <= x \div c THEN c ELSE r, b - 1)

\* Math.sqrt(a): the number nearest to the exact square root
SqrtShift == (Precision + 3) - ((Precision + 3) % 2)
MathSqrt(a) ==
    IF a[1] = 0 THEN a
    ELSE LET m  == IF a[2] % 2 = 0 THEN a[1] ELSE 2 * a[1]
             e  == IF a[2] % 2 = 0 THEN a[2] ELSE a[2] - 1
             x  == m * Pow2(SqrtShift)
             r  == ISqrt(x, 0, SqrtShift \div 2 + (Precision + 1) \div 2)
             st == IF r * r = x THEN 0 ELSE 1
         IN NumRound(2 * r + st, 2, (e - SqrtShift) \div 2)

\* [...values].sort((a, b) => a - b)
RECURSIVE Sorted(_)
Sorted(v) ==
    IF v = <<>> THEN <<>>
    ELSE LET m    == SetMin({v[x] : x \in 1..Len(v)})
             at   == SetMin({x \in 1..Len(v) : v[x] = m})
             rest == [x \in 1..(Len(v) - 1) |-> IF x < at THEN v[x] ELSE v[x + 1]]
         IN <<m>> \o Sorted(rest)

\* robustMedian(values) of integer values (the list is never empty here)
robustMedian(values) ==
    LET sorted == Sorted(values)
        mid    == Len(sorted) \div 2     \* 0-based index
    IN IF Len(sorted) % 2 # 0 THEN Num(sorted[mid + 1])
       ELSE Over(Plus(Num(sorted[mid]), Num(sorted[mid + 1])), Num(2))

\* normalizeSprite step 3: the clamped scale of a frame of the given area
ClampedScale(targetArea, area, clamp) ==
    LET scale == MathSqrt(Over(targetArea, Num(Max2(area, 1))))
    IN MathMax(Minus(Num(1), clamp), MathMin(Plus(Num(1), clamp), scale))

\* computeSGCoefficients(windowSize)
RECURSIVE SumNums(_, _)
SumNums(ws, upTo) == IF upTo = 0 THEN <<0, 0>> ELSE Plus(SumNums(ws, upTo - 1), ws[upTo])
computeSGCoefficients(windowSize) ==
    LET halfWindow == windowSize \div 2
        weights == [x \in 1..(2 * halfWindow + 1) |->
                       Minus(Num(1), Over(Num(Abs(x - 1 - halfWindow)), Num(halfWindow + 1)))]
        sum == SumNums(weights, 2 * halfWindow + 1)
    IN [x \in 1..(2 * halfWindow + 1) |-> Over(weights[x], sum)]

\* savitzkyGolaySmooth: a running sum (smoothScale, smoothDx) over the field
\* values vs of the transforms, after the terms for j = -halfWindow .. upTo
RECURSIVE SmoothAcc(_, _, _, _, _)
SmoothAcc(vs, coefficients, halfWindow, i, upTo) ==
    IF upTo < 0 - halfWindow THEN <<0, 0>>
    ELSE LET idx == Max2(1, Min2(Len(vs), i + upTo))
         IN Plus(SmoothAcc(vs, coefficients, halfWindow, i, upTo - 1),
                 Times(vs[idx], coefficients[upTo + halfWindow + 1]))

\* the element of a one-element set: The({e}) is e, computed once
The(S) == CHOOSE x \in S : TRUE

\* savitzkyGolaySmooth(transforms, windowSize), on one field of the transforms
savitzkyGolaySmooth(vs, windowSize) ==
    IF windowSize < 3 \/ Len(vs) < windowSize THEN vs
    ELSE LET halfWindow == windowSize \div 2
         IN The({[i \in 1..Len(vs) |->
                    SmoothAcc(vs, coefficients, halfWindow, i, halfWindow)] :
                 coefficients \in {computeSGCoefficients(windowSize)}})

\* GEN_CELL: the side of a frame in px
Cell == 176
\* performance.now() - startTime of a run, in ms
ElapsedMs == {12, 15}
\* centroid x of the frames that have a foreground, by frame index
CentroidTracks == {<<88, 88, 88, 88, 88, 88, 88, 88>>,
                   <<80, 96, 88, 88, 100, 70, 88, 90>>}

\* analyzeFrame: the centroid x of a frame with `area` foreground pixels whose
\* mean x is `meanX`; an empty frame gets the frame centre
AnalysedX(area, meanX) == IF area > 0 THEN meanX ELSE Cell \div 2

\* normalizeSprite step 5: the output frames from the smoothed transforms
NormalizedFrames(areas, xs, smoothScale, smoothDx) ==
    [i \in 1..Len(areas) |->
        [centroid |-> Plus(Times(Num(xs[i]), smoothScale[i]), smoothDx[i]),
         area |-> Times(Times(Num(areas[i]), smoothScale[i]), smoothScale[i]),
         scale |-> smoothScale[i],
         offset |-> smoothDx[i]]]

\* normalizeSprite steps 2 to 5: the transforms and the output frames from
\* the frames' analysed areas and centroids (x axis; the y axis is computed
\* by the same statements with y for x).  The composed pixels do not enter
\* any of these fields.  clamped and scale repeat the transforms before and
\* after smoothing.
Stabilize(areas, xs, opts) ==
    LET targetArea == robustMedian(areas)
        targetX == robustMedian(xs)
        clamp == Literal(opts.scaleClamp)
    IN The({The({The({[clamped |-> scales, scale |-> smoothScale,
                       frames |-> NormalizedFrames(areas, xs, smoothScale, smoothDx)] :
                      smoothScale \in {savitzkyGolaySmooth(scales, opts.smoothWindow)},
                      smoothDx \in {savitzkyGolaySmooth(dxs, opts.smoothWindow)}}) :
                 dxs \in {[i \in 1..Len(areas) |->
                             Minus(targetX, Times(Num(xs[i]), scales[i]))]}}) :
            scales \in {[i \in 1..Len(areas) |->
                           ClampedScale(targetArea, areas[i], clamp)]}})

\* normalizeSprite step 6 and return: { frames, metrics }, the metrics from
\* computeMetrics(normalizedFrames, performance.now() - startTime);
\* centroidStddev and areaDrift are functions of the frames and are left out
normalizeSprite(st, totalTimeMs) ==
    [fn |-> "normalizeSprite", clamped |-> st.clamped, scale |-> st.scale,
     frames |-> st.frames,
     metrics |-> [avgPostProcMs |-> Over(Num(totalTimeMs), Num(Len(st.frames))),
                  frameCount |-> Len(st.frames)],
     first |-> <<>>]

\* a sprite sheet has been analysed (area and centroid of each frame) and is
\* to be normalized
StabilizerInit ==
    /\ ServicesInit
    /\ ViewerInit /\ isPlaying = FALSE
    /\ zoom = ZoomUnit
    /\ parallax = 0
    /\ props = DefaultProps
    /\ listeners = [k \in EventKinds |-> <<>>]
    /\ \E n \in MinFrames..MaxFrames, w \in SmoothWindows, tr \in CentroidTracks :
          call \in {[fn |-> "normalizeSprite", areas |-> a,
                     xs |-> [i \in 1..n |-> AnalysedX(a[i], tr[i])],
                     opts |-> [scaleClamp |-> ScaleClamp, smoothWindow |-> w]] :
                    a \in [1..n -> AreaInputs]}
    /\ ret = NoCall

\* normalizeSprite(sheet, options) returns
NormalizeSprite ==
    /\ call.fn = "normalizeSprite" /\ ret = NoCall
    /\ LET st == Stabilize(call.areas, call.xs, call.opts)
       IN \E ms \in ElapsedMs : ret' = normalizeSprite(st, ms)
    /\ UNCHANGED <<viewer, services, last, zoom, parallax, props, listeners, call>>

\* normalizeSprite(sheet, options) is called a second time on the same sheet
\* and returns; first keeps what the first run returned
NormalizeSpriteAgain ==
    /\ call.fn = "normalizeSprite" /\ ret # NoCall /\ ret.first = <<>>
    /\ LET st == Stabilize(call.areas, call.xs, call.opts)
       IN \E ms \in ElapsedMs :
             ret' = [normalizeSprite(st, ms)
                       EXCEPT !.first = <<[frames |-> ret.frames, metrics |-> ret.metrics]>>]
    /\ UNCHANGED <<viewer, services, last, zoom, parallax, props, listeners, call>>

StabilizerNext ==
    \/ NormalizeSprite
    \/ NormalizeSpriteAgain

StabilizerSpec == StabilizerInit /\ [][StabilizerNext]_vars

\* C20: the scale of every output frame of normalizeSprite (the temporally
\* smoothed scale) lies in [1 - scaleClamp, 1 + scaleClamp], also when a frame
\* has an outlier area or an empty foreground.
C20_ScaleWithinClamp ==
    ret.fn = "normalizeSprite" =>
        LET lo == Minus(Num(1), Literal(call.opts.scaleClamp))
            hi == Plus(Num(1), Literal(call.opts.scaleClamp))
        IN \A i \in 1..Len(ret.scale) :
              ~Less(ret.scale[i], lo) /\ ~Less(hi, ret.scale[i])

\* |a|
AbsNum(a) == <<Abs(a[1]), a[2]>>
\* the tolerance on a centroid, in px: the 0.5 px of the stabilizer's
\* acceptance threshold, as <<numerator, denominator>>
CentroidEpsilon == <<1, 2>>

\* C21: the final centroid of every output frame of normalizeSprite lies
\* within epsilon of the target centroid, the median of the analysed
\* centroids.
C21_CentroidOnTarget ==
    ret.fn = "normalizeSprite" =>
        LET target == robustMedian(call.xs)
        IN \A i \in 1..Len(ret.frames) :
              ~Less(Literal(CentroidEpsilon),
                    AbsNum(Minus(ret.frames[i].centroid, target)))

\* C22: a second run of normalizeSprite on the same input and options
\* returns the same output frames and the same metrics as the first.
C22_SecondRunIdentical ==
    (ret.fn = "normalizeSprite" /\ ret.first # <<>>) =>
        /\ ret.frames = ret.first[1].frames
        /\ ret.metrics = ret.first[1].metrics

\* C23: a frame whose foreground is empty is analysed with centroid = frame
\* centre and area 0, normalizeSprite still returns one output frame per
\* input frame, and the result marks that frame as degenerate.
C23_DegenerateMarked ==
    ret.fn = "normalizeSprite" =>
        /\ Len(ret.frames) = Len(call.areas)
        /\ \A i \in 1..Len(call.areas) :
              call.areas[i] = 0 =>
                 /\ 2 * call.xs[i] = Cell
                 /\ \/ "degenerate" \in DOMAIN ret.frames[i]
                    \/ "degenerate" \in DOMAIN ret.metrics

(* ------------------ render with frames that have no texture ------------ *)

\* how many of the FrameCount frames have a texture when the loop starts
\* (gl.createTexture() yields null once the context is lost, and the
\* frames prop can grow before createTextures runs again)
TextureCounts == {0, 1, 6, FrameCount}
\* yaw inputs that resolve to frames on both sides of the last texture
RenderYaws == {-90, 160, 400}

\* render(): i or j resolved for yaw y has no texture
MissingNeighbor(y) ==
    LET i == PhaseI(y, FrameCount)
        j == (i + 1) % FrameCount
    IN texturesLen > 0 /\ (i >= texturesLen \/ j >= texturesLen)

RenderInit ==
    /\ yaw = 0 /\ pitch = 0 /\ frameIndex = 0
    /\ isDragging = FALSE /\ isPlaying \in BOOLEAN
    /\ animState = NoAnim /\ drag = NoDrag /\ handles = <<>>
    /\ texturesLen \in TextureCounts
    /\ last = NoLast
    /\ AuxInit
    /\ ServicesInit

RenderNext ==
    \/ \E t \in RenderYaws, s \in BOOLEAN : SetYaw(t, s)
    \/ \E p \in PitchInputs : SetPitch(p)
    \/ Pause
    \/ Resume
    \/ RenderTick

RenderSpec == RenderInit /\ [][RenderNext]_vars

\* C24: a render tick whose frame i or j has no texture resolves the frame
\* index, draws and emits nothing, and leaves the loop armed: the next tick
\* can run.
C24_MissingNeighborSkipped ==
    (last.op = "tick" /\ MissingNeighbor(yaw)) =>
        /\ last.frame = 0 - 1
        /\ frameIndex = PhaseI(yaw, FrameCount)
        /\ ENABLED RenderTick

\* a tick has rendered at a yaw whose frame i has a texture while its
\* neighbour j has none
C24_Witness ==
    /\ last.op = "tick"
    /\ MissingNeighbor(yaw)
    /\ PhaseI(yaw, FrameCount) < texturesLen
    /\ last.frame = 0 - 1

(* ---------------------- transition interpolation ----------------------- *)

\* playTo durations that leave room for more than one tick before the end,
\* in units of 1/60 s
InterpDurs == {2, 4}

\* playTo, with the yaw and pitch at the call noted in `call`
PlayToFrom(y, p, d) ==
    /\ PlayToRegisters(y, p, d)
    /\ call' = [fn |-> "playTo", startYaw |-> yaw, startPitch |-> pitch]
    /\ UNCHANGED <<zoom, parallax, props, listeners, ret, services>>

InterpNext ==
    \/ \E t \in YawInputs, s \in BOOLEAN : animState.id = 0 /\ SetYaw(t, s)
    \/ \E tg \in PlayTargets, d \in InterpDurs : PlayToFrom(tg[1], tg[2], d)
    \/ RenderTick

InterpSpec == Init /\ [][InterpNext]_vars

\* C26: while a transition is pending, after every tick the stored yaw is
\* startYaw + (targetYaw - startYaw) * ease(elapsed / duration), and likewise
\* the pitch, with startYaw and startPitch the values at the playTo call.
C26_InterpolatesFromStart ==
    (animState.id # 0 /\ animState.elapsed > 0) =>
        LET e == easeInOutCubic(animState.elapsed, animState.duration)
        IN /\ yaw = Interpolate(call.startYaw, animState.targetYaw, e)
           /\ pitch = Interpolate(call.startPitch, animState.targetPitch, e)

(* ----------------------------- seam angle ------------------------------ *)

\* motionDirection(dTheta, dPhi).angle = Math.atan2(dPhi, dTheta) for
\* dPhi = 0 ("single ring for now"), in degrees: 0 along +theta, and at
\* the origin; 180 along -theta
motionDirection(dTheta) == IF dTheta < 0 THEN 180 ELSE 0

\* render(): the seamAngle handed to setStitchUniforms when the stored yaw
\* is y; prevYaw is read from the state that yaw was just read from
RenderSeamAngle(y) ==
    LET prevYaw == y
        dTheta  == y - prevYaw
    IN motionDirection(dTheta)

\* C27: at every render tick that reaches the stitch pass, the seam angle
\* is atan2(0, dTheta) with dTheta the yaw now minus the yaw at the previous
\* tick: 0 for forward motion, and another angle for reverse motion.
\* (Stated for ticks that move the yaw by less than half a turn, which
\* leaves out the wrap of the auto-rotation from 360 to 0.)
C27_SeamFollowsMotion ==
    [][ (last'.op = "tick" /\ last'.frame # 0 - 1 /\ 2 * Abs(yaw' - yaw) < FullTurn) =>
            RenderSeamAngle(yaw') = motionDirection(yaw' - yaw) ]_vars

(* ------------------------------ job server ----------------------------- *)
(* server.ts: createJob, cancelJob and the queue processor. A handler runs  *)
(* without interruption up to its next await; one action is one such run.   *)

\* number of createJob requests in a run
MaxRequests == 3
\* the Idempotency-Key header of a request; "" stands for no header
KeyValues == {"", "k1"}
\* a request body: valid says whether it parses and carries both input
\* uris, callback_url whether it names a webhook
Bodies == [valid : BOOLEAN, callback_url : BOOLEAN]

Terminal == {"completed", "failed", "cancelled"}

\* processQueue(): the while loop from its top, up to the first await of
\* processJob (jobs of equal priority leave the queue in enqueue order);
\* the result is <<jobs, jobQueue, isProcessing, worker>>
RECURSIVE RunQueue(_, _)
RunQueue(js, q) ==
    IF q = <<>> THEN <<js, q, FALSE, NoWorker>>
    ELSE LET id == Head(q)
         IN IF js[id].status = "cancelled" THEN RunQueue(js, Tail(q))
            ELSE <<[js EXCEPT ![id].status = "processing"], Tail(q), TRUE,
                   [pc |-> "progress", job |-> id]>>

\* processQueue()
processQueue(js, q, processing, w) ==
    IF processing \/ q = <<>> THEN <<js, q, processing, w>> ELSE RunQueue(js, q)

\* createJob up to `await ctx.req.json()`: the idempotency check
CreateJobBegin(key, body) ==
    /\ Len(requests) < MaxRequests
    /\ requests' = Append(requests,
          IF key # "" /\ key \in DOMAIN idempotencyKeys
          THEN [pc |-> "done", key |-> key, body |-> body, code |-> 200,
                job_id |-> idempotencyKeys[key]]
          ELSE [pc |-> "reading", key |-> key, body |-> body, code |-> 0,
                job_id |-> 0])
    /\ UNCHANGED <<jobs, idempotencyKeys, jobQueue, isProcessing, worker>>
    /\ UNCHANGED <<viewer, last, aux, cache, now>>

\* createJob from the parsed body to its return
CreateJobFinish(r) ==
    /\ r \in DOMAIN requests
    /\ requests[r].pc = "reading"
    /\ IF ~requests[r].body.valid
       THEN /\ requests' = [requests EXCEPT ![r].pc = "done", ![r].code = 400]
            /\ UNCHANGED <<jobs, idempotencyKeys, jobQueue, isProcessing, worker>>
       ELSE LET jobId == Len(jobs) + 1
                key   == requests[r].key
                job   == [status |-> "queued", idempotency_key |-> key,
                          callback_url |-> requests[r].body.callback_url]
                pq    == processQueue(Append(jobs, job), Append(jobQueue, jobId),
                                      isProcessing, worker)
            IN /\ jobs' = pq[1]
               /\ jobQueue' = pq[2]
               /\ isProcessing' = pq[3]
               /\ worker' = pq[4]
               /\ idempotencyKeys' =
                     IF key = "" THEN idempotencyKeys
                     ELSE [k \in DOMAIN idempotencyKeys \cup {key} |->
                              IF k = key THEN jobId ELSE idempotencyKeys[k]]
               /\ requests' = [requests EXCEPT ![r].pc = "done", ![r].code = 201,
                                               ![r].job_id = jobId]
    /\ UNCHANGED <<viewer, last, aux, cache, now>>

\* cancelJob of a job that exists and is neither completed nor failed
CancelJob(id) ==
    /\ id \in DOMAIN jobs
    /\ jobs[id].status \notin {"completed", "failed"}
    /\ jobs' = [jobs EXCEPT ![id].status = "cancelled"]
    /\ jobQueue' = SelectSeq(jobQueue, LAMBDA q : q # id)
    /\ UNCHANGED <<idempotencyKeys, isProcessing, worker, requests>>
    /\ UNCHANGED <<viewer, last, aux, cache, now>>

\* sendWebhook(job, event) returns at once without a callback_url; with one
\* it signs the payload before its retry loop, outside any try: the call
\* returns (ok) or rejects when signing rejects
WebhookOutcomes(job) == IF job.callback_url THEN BOOLEAN ELSE {TRUE}

\* the loop of processQueue after processJob returned
NextInQueue ==
    LET pq == RunQueue(jobs, jobQueue)
    IN /\ jobs' = pq[1]
       /\ jobQueue' = pq[2]
       /\ isProcessing' = pq[3]
       /\ worker' = pq[4]

\* processJob: the progress webhooks and the sleeps of the four stages, up
\* to status = 'completed', or to the catch block when a webhook rejects
ProcessJobStages ==
    /\ worker.pc = "progress"
    /\ \E ok \in WebhookOutcomes(jobs[worker.job]) :
          /\ jobs' = [jobs EXCEPT ![worker.job].status =
                         IF ok THEN "completed" ELSE "failed"]
          /\ worker' = [worker EXCEPT !.pc = IF ok THEN "completed" ELSE "failed"]
    /\ UNCHANGED <<idempotencyKeys, jobQueue, isProcessing, requests>>
    /\ UNCHANGED <<viewer, last, aux, cache, now>>

\* processJob: `await sendWebhook(job, 'job.completed')`, inside the try
WebhookCompleted ==
    /\ worker.pc = "completed"
    /\ \E ok \in WebhookOutcomes(jobs[worker.job]) :
          IF ok THEN NextInQueue
          ELSE /\ jobs' = [jobs EXCEPT ![worker.job].status = "failed"]
               /\ worker' = [worker EXCEPT !.pc = "failed"]
               /\ UNCHANGED <<jobQueue, isProcessing>>
    /\ UNCHANGED <<idempotencyKeys, requests>>
    /\ UNCHANGED <<viewer, last, aux, cache, now>>

\* processJob: `await sendWebhook(job, 'job.failed')`, inside the catch; a
\* rejection leaves processJob and processQueue before `isProcessing = false`
WebhookFailed ==
    /\ worker.pc = "failed"
    /\ \E ok \in WebhookOutcomes(jobs[worker.job]) :
          IF ok THEN NextInQueue
          ELSE /\ worker' = [worker EXCEPT !.pc = "rejected"]
               /\ UNCHANGED <<jobs, jobQueue, isProcessing>>
    /\ UNCHANGED <<idempotencyKeys, requests>>
    /\ UNCHANGED <<viewer, last, aux, cache, now>>

ProcessJob == ProcessJobStages \/ WebhookCompleted \/ WebhookFailed
ReadBody == \E r \in 1..MaxRequests : CreateJobFinish(r)

JobInit == ViewerInit /\ isPlaying = FALSE /\ AuxInit /\ ServicesInit

JobNext ==
    \/ \E key \in KeyValues, body \in Bodies : CreateJobBegin(key, body)
    \/ ReadBody
    \/ \E id \in 1..MaxRequests : CancelJob(id)
    \/ ProcessJob

\* every await settles: a body that is being read arrives, and the
\* webhooks and sleeps of the job in hand come to an end
JobSpec == JobInit /\ [][JobNext]_vars /\ WF_vars(ReadBody) /\ WF_vars(ProcessJob)

\* the moves of a job's status that the status machine allows
StatusMoves ==
    {<<"queued", "processing">>, <<"processing", "completed">>,
     <<"processing", "failed">>, <<"queued", "cancelled">>,
     <<"processing", "cancelled">>}

\* C25: a job's status only moves queued -> processing -> completed or
\* failed, or from queued or processing to cancelled; a completed, failed
\* or cancelled job keeps its status.
C25_StatusMachine ==
    [][ \A id \in DOMAIN jobs :
           jobs'[id].status # jobs[id].status =>
              <<jobs[id].status, jobs'[id].status>> \in StatusMoves ]_vars

\* C28: for every Idempotency-Key, at most one job is created, and every
\* request with that key that was answered with a job answers with that
\* job's job_id.
C28_OneJobPerKey ==
    \A key \in KeyValues \ {""} :
        LET created == {id \in DOMAIN jobs : jobs[id].idempotency_key = key}
        IN /\ Cardinality(created) <= 1
           /\ \A r \in DOMAIN requests :
                 (requests[r].key = key /\ requests[r].code \in {200, 201}) =>
                     requests[r].job_id \in created

\* C29: every job that createJob accepted and that is never cancelled
\* eventually reaches 'completed' or 'failed'.
C29_QueuedJobsFinish ==
    \A id \in 1..MaxRequests :
        [](id \in DOMAIN jobs =>
              <>(id \in DOMAIN jobs /\ jobs[id].status \in Terminal))

(* ------------------------------ MemoryCache ---------------------------- *)

\* the clock stops here
MaxClock == 3
\* config.maxEntries, config.maxSize and config.ttl of the cache under study
ConfigMaxEntries == 2
ConfigMaxSize == 4
ConfigTtl == 2
\* keys and sizes handed to set, get and delete
CacheKeys == {"a", "b", "c"}
SizeInputs == {0, 1, 2, 5}

\* the sum of entry.metadata.size over the entries
RECURSIVE TotalSize(_)
TotalSize(c) == IF c = <<>> THEN 0 ELSE Head(c).size + TotalSize(Tail(c))

\* the position of key in the Map, 0 if it has no entry
IndexOfKey(c, key) ==
    IF \E i \in 1..Len(c) : c[i].key = key
    THEN CHOOSE i \in 1..Len(c) : c[i].key = key
    ELSE 0

\* Map.delete(key)
DeleteKey(c, key) == SelectSeq(c, LAMBDA e : e.key # key)

\* evictLRU(): the entry to go is the first, in insertion order, among those
\* with the smallest accessed time
OldestIndex(c) ==
    CHOOSE i \in 1..Len(c) :
        /\ \A k \in 1..Len(c) : c[i].accessed <= c[k].accessed
        /\ \A k \in 1..(i - 1) : c[k].accessed > c[i].accessed

\* evictLRU(): <<cache after the eviction, evictedSize>>
evictLRU(c) ==
    IF c = <<>> THEN <<c, 0>>
    ELSE LET i == OldestIndex(c)
         IN <<DeleteKey(c, c[i].key), c[i].size>>

\* evictIfNeeded: while (this.cache.size >= maxEntries) evictLRU()
RECURSIVE EvictToCount(_)
EvictToCount(c) ==
    IF Len(c) >= ConfigMaxEntries THEN EvictToCount(evictLRU(c)[1]) ELSE c

\* evictIfNeeded: while (totalSize + incomingSize > maxSize && size > 0)
RECURSIVE EvictToSize(_, _, _)
EvictToSize(c, totalSize, incomingSize) ==
    IF totalSize + incomingSize > ConfigMaxSize /\ Len(c) > 0
    THEN LET ev == evictLRU(c)
         IN EvictToSize(ev[1], totalSize - ev[2], incomingSize)
    ELSE c

\* evictIfNeeded(incomingSize)
evictIfNeeded(c, incomingSize) ==
    LET counted == EvictToCount(c)
    IN EvictToSize(counted, TotalSize(counted), incomingSize)

\* Map.set(key, entry): an existing key keeps its place
MapSet(c, entry) ==
    LET i == IndexOfKey(c, entry.key)
    IN IF i = 0 THEN Append(c, entry) ELSE [c EXCEPT ![i] = entry]

\* set(key, data, size)
CacheSet(key, size) ==
    /\ cache' = MapSet(evictIfNeeded(cache, size),
                       [key |-> key, size |-> size, created |-> now, accessed |-> now])
    /\ UNCHANGED <<now, server, viewer, last, aux>>

\* get(key): a miss, an expired entry (deleted), or a hit (accessed = now)
CacheGet(key) ==
    /\ LET i == IndexOfKey(cache, key)
       IN cache' = IF i = 0 THEN cache
                   ELSE IF now - cache[i].created > ConfigTtl THEN DeleteKey(cache, key)
                   ELSE [cache EXCEPT ![i].accessed = now]
    /\ UNCHANGED <<now, server, viewer, last, aux>>

\* delete(key)
CacheDelete(key) ==
    /\ cache' = DeleteKey(cache, key)
    /\ UNCHANGED <<now, server, viewer, last, aux>>

\* a millisecond passes
ClockTick ==
    /\ now < MaxClock
    /\ now' = now + 1
    /\ UNCHANGED <<cache, server, viewer, last, aux>>

CacheInit == ViewerInit /\ isPlaying = FALSE /\ AuxInit /\ ServicesInit

CacheNext ==
    \/ \E key \in CacheKeys, size \in SizeInputs : CacheSet(key, size)
    \/ \E key \in CacheKeys : CacheGet(key)
    \/ \E key \in CacheKeys : CacheDelete(key)
    \/ ClockTick

CacheSpec == CacheInit /\ [][CacheNext]_vars

\* C30: after any sequence of set, get and delete calls the cache holds at
\* most maxEntries entries and their sizes sum to at most maxSize.
C30_WithinCapacity ==
    /\ Len(cache) <= ConfigMaxEntries
    /\ TotalSize(cache) <= ConfigMaxSize

====
